---- MODULE Spec2Model ----
(***************************************************************************)
(* The authorization pipeline of pkg/service/auth_context.go: one          *)
(* AuthContext, its Evaluate() call, the three fan-out runners and their   *)
(* worker goroutines, the buffered response channels and the consumers     *)
(* that fill the Identity, Metadata and Authorization result maps.         *)
(***************************************************************************)
EXTENDS Naturals, Sequences, FiniteSets, TLC

\* Longest list of evaluators of one phase that is explored.
MaxConfigs == 2

\* Most evaluators, over the three phases, of an API config that is explored.
MaxEvaluators == 4

\* Most pieces an "authorization" header value that is explored is made of.
MaxPieces == 3

\* Most evaluators, over the three phases, of an API config explored in the
\* runs under fairness and in the runs with a call of FindIdentityByName.
MaxFairEvaluators == 3

VARIABLES
    API,              \* the APIConfig: phase -> list of evaluators (each "ok" or "fail")
    parentCancelled,  \* *ParentContext was cancelled while a phase was in progress
    Identity,         \* AuthContext.Identity: evaluator index -> object
    Metadata,         \* AuthContext.Metadata
    Authorization,    \* AuthContext.Authorization
    evalpc,           \* where the goroutine running Evaluate() is
    lastError,        \* evaluateIdentityConfigs' local variable
    result,           \* what Evaluate() returned
    respChannel,      \* phase -> the responses buffered in the phase's channel
    closed,           \* phase -> the channel has been closed
    ctxDone,          \* phase -> the runner's ctx has been cancelled
    waitGroup,        \* phase -> the runner's WaitGroup counter
    runner,           \* phase -> position of the goroutine running the runner
    spawned,          \* phase -> number of worker goroutines started by the loop
    task,             \* phase -> worker index -> position of the worker goroutine
    calls,            \* phase -> worker index -> number of config.Call invocations
    lastRead,         \* the response most recently received by a consumer
    panicked,         \* a goroutine sent on a closed channel (the process dies)
    emitted,          \* phase -> worker index -> number of responses it sent
    request,          \* the "authorization" header of AuthContext.Request
    tokenOut,         \* what AuthorizationToken() returned
    oidc,             \* identity evaluator index -> the name of its OIDC field
    findOut           \* what FindIdentityByName() returned

vars == <<API, parentCancelled, Identity, Metadata, Authorization, evalpc,
          lastError, result, respChannel, closed, ctxDone, waitGroup, runner,
          spawned, task, calls, lastRead, panicked, emitted, request,
          tokenOut, oidc, findOut>>

Phases == {"identity", "metadata", "authorization"}

\* What an evaluator's Call does: return an object ("ok") or an error ("fail").
Verdicts == {"ok", "fail"}

ConfigLists == UNION {[1..n -> Verdicts] : n \in 0..MaxConfigs}

\* The nil error / nil object, the object and the error an evaluator returns.
Nil == [phase |-> "nil", index |-> 0]
Obj(p, i) == [phase |-> p, index |-> i]
Err(p, i) == [phase |-> p, index |-> i]

newEvaluationResponseSuccess(evaluator, obj) ==
    [Evaluator |-> evaluator, Success |-> TRUE, Object |-> obj, Error |-> Nil]

newEvaluationResponseFailure(evaluator, err) ==
    [Evaluator |-> evaluator, Success |-> FALSE, Object |-> Nil, Error |-> err]

NoResponse == [Evaluator |-> 0, Success |-> FALSE, Object |-> Nil, Error |-> Nil]

NoResult == [kind |-> "none", err |-> Nil]

\* A request without an "authorization" header (authHeaderOK is false).
NoHeader == [present |-> FALSE, value |-> <<>>]

\* AuthorizationToken() has not been called.
NotCalled == [token |-> <<>>, err |-> "none", fault |-> FALSE]

\* The separator AuthorizationToken splits the header at.
BearerPrefix == <<"B", "e", "a", "r", "e", "r", " ">>

\* The pieces header values are made of: the scheme with its space, the
\* scheme in lower case, the scheme without a space, a token character, a space.
Pieces ==
    { BearerPrefix,
      <<"b", "e", "a", "r", "e", "r", " ">>,
      <<"B", "e", "a", "r", "e", "r">>,
      <<"a">>,
      <<" ">> }

RECURSIVE Concat(_)
Concat(pieces) ==
    IF pieces = <<>> THEN <<>> ELSE Head(pieces) \o Concat(Tail(pieces))

HeaderValues ==
    {Concat(ps) : ps \in UNION {[1..n -> Pieces] : n \in 0..MaxPieces}}

\* The names OIDC configurations carry.
OIDCNames == {"a", "b"}

\* The OIDC field of an identity evaluator that is not an OIDC one (an API-key
\* evaluator): it has no OIDC configuration, the pointer is nil.
NilOIDC == "nil"

\* FindIdentityByName() has not been called.
NotSearched == [name |-> "", kind |-> "none", key |-> 0]

\* Requests: without the header, or with one of the header values.
Requests ==
    {NoHeader} \cup {[present |-> TRUE, value |-> h] : h \in HeaderValues}

\* NewAuthContext for the API config in API: empty result maps; nothing is
\* running.
InitContext ==
    /\ parentCancelled = FALSE
    /\ Identity = <<>>
    /\ Metadata = <<>>
    /\ Authorization = <<>>
    /\ evalpc = "new"
    /\ lastError = Nil
    /\ result = NoResult
    /\ respChannel = [p \in Phases |-> <<>>]
    /\ closed = [p \in Phases |-> FALSE]
    /\ ctxDone = [p \in Phases |-> FALSE]
    /\ waitGroup = [p \in Phases |-> 0]
    /\ runner = [p \in Phases |-> "idle"]
    /\ spawned = [p \in Phases |-> 0]
    /\ task = [p \in Phases |-> [i \in 1..Len(API[p]) |-> "unspawned"]]
    /\ calls = [p \in Phases |-> [i \in 1..Len(API[p]) |-> 0]]
    /\ lastRead = NoResponse
    /\ panicked = FALSE
    /\ emitted = [p \in Phases |-> [i \in 1..Len(API[p]) |-> 0]]
    /\ tokenOut = NotCalled
    /\ findOut = NotSearched

\* An AuthContext for any API config, for a request without the header.
Init ==
    /\ API \in [Phases -> ConfigLists]
    /\ Len(API["identity"]) + Len(API["metadata"])
          + Len(API["authorization"]) <= MaxEvaluators
    /\ request = NoHeader
    /\ oidc = [i \in DOMAIN API["identity"] |-> NilOIDC]
    /\ InitContext

\* An AuthContext for any of the smaller API configs.
InitFair ==
    /\ Init
    /\ Len(API["identity"]) + Len(API["metadata"])
          + Len(API["authorization"]) <= MaxFairEvaluators

\* An AuthContext for any request, for an API config without evaluators.
InitToken ==
    /\ API = [p \in Phases |-> <<>>]
    /\ request \in Requests
    /\ oidc = <<>>
    /\ InitContext

\* An AuthContext for any of the smaller API configs, each identity evaluator
\* an OIDC one with a name or not an OIDC one.
InitFind ==
    /\ API \in [Phases -> ConfigLists]
    /\ Len(API["identity"]) + Len(API["metadata"])
          + Len(API["authorization"]) <= MaxFairEvaluators
    /\ request = NoHeader
    /\ oidc \in [DOMAIN API["identity"] -> OIDCNames \cup {NilOIDC}]
    /\ InitContext

\* evaluateIdentityConfigs runs evaluateOneAuthConfig, evaluateMetadataConfigs
\* runs evaluateAnyAuthConfig, evaluateAuthorizationConfigs runs
\* evaluateAllAuthConfigs.
RunnerOf(p) ==
    CASE p = "identity" -> "evaluateOneAuthConfig"
      [] p = "metadata" -> "evaluateAnyAuthConfig"
      [] p = "authorization" -> "evaluateAllAuthConfigs"

\* A channel with room for one response less than there are evaluators.
ChanCap_oneShort(configs) == IF Len(configs) = 0 THEN 0 ELSE Len(configs) - 1

\* make(chan EvaluationResponse, len(configs))
ChanCap(configs) == Len(configs)

\* Evaluate() with the metadata and authorization phases exchanged.
PhaseAfter_authorizationFirst(p) ==
    CASE p = "new" -> "identity"
      [] p = "identity" -> "authorization"
      [] p = "authorization" -> "metadata"
      [] p = "metadata" -> "returned"

\* The order of the phases in Evaluate(): identity, metadata, authorization,
\* return nil.
PhaseAfter(p) ==
    CASE p = "new" -> "identity"
      [] p = "identity" -> "metadata"
      [] p = "metadata" -> "authorization"
      [] p = "authorization" -> "returned"

\* One ctx for the whole request instead of one for each runner.
CtxOf_shared(p) == "identity"

\* The ctx a runner's workers observe and cancel: each runner makes its own
\* from context.Background().
CtxOf(p) == p

\* A select that never takes the ctx.Done() case.
ctxSkips_never(done) == FALSE

\* The select of evaluateAuthConfig: with ctx done the evaluator is not called.
ctxSkips(done) == done

\* A runner that does not wait for its workers.
WaitReturns_noWait(counter) == TRUE

\* waitGroup.Wait() returns when the counter is zero.
WaitReturns(counter) == counter = 0

\* evaluateOneAuthConfig cancelling after a failure too.
AfterEvaluate_oneCancelsOnError(runnerName, outcome) ==
    CASE runnerName = "evaluateOneAuthConfig" -> "cancel"
      [] runnerName = "evaluateAllAuthConfigs" ->
             IF outcome = "fail" THEN "cancel" ELSE "done"
      [] runnerName = "evaluateAnyAuthConfig" -> "done"

\* What a worker goroutine does once its response (if any) is sent, by the
\* outcome of evaluateAuthConfig: "skipped" and "ok" return nil, "fail" an error.
\* evaluateOneAuthConfig cancels on nil, evaluateAllAuthConfigs on an error,
\* evaluateAnyAuthConfig never.
AfterEvaluate(runnerName, outcome) ==
    CASE runnerName = "evaluateOneAuthConfig" ->
             IF outcome = "fail" THEN "done" ELSE "cancel"
      [] runnerName = "evaluateAllAuthConfigs" ->
             IF outcome = "fail" THEN "cancel" ELSE "done"
      [] runnerName = "evaluateAnyAuthConfig" -> "done"

\* The response a called evaluator's goroutine sends: successCallback on an
\* object, failureCallback on an error.
ResponseOf(p, i, verdict) ==
    IF verdict = "ok"
    THEN newEvaluationResponseSuccess(i, Obj(p, i))
    ELSE newEvaluationResponseFailure(i, Err(p, i))

\* The identity loop without its return on a success.
identityLoopBody_noReturn(resp, identity, lastErr) ==
    IF resp.Success
    THEN [results |-> (resp.Evaluator :> resp.Object) @@ identity,
          lastError |-> lastErr, returns |-> FALSE, err |-> Nil]
    ELSE [results |-> identity,
          lastError |-> resp.Error, returns |-> FALSE, err |-> Nil]

\* The identity loop keeping the first error instead of the last.
identityLoopBody_firstError(resp, identity, lastErr) ==
    IF resp.Success
    THEN [results |-> (resp.Evaluator :> resp.Object) @@ identity,
          lastError |-> lastErr, returns |-> TRUE, err |-> Nil]
    ELSE [results |-> identity,
          lastError |-> IF lastErr = Nil THEN resp.Error ELSE lastErr,
          returns |-> FALSE, err |-> Nil]

\* Body of the range loop of evaluateIdentityConfigs.
identityLoopBody(resp, identity, lastErr) ==
    IF resp.Success
    THEN [results |-> (resp.Evaluator :> resp.Object) @@ identity,
          lastError |-> lastErr, returns |-> TRUE, err |-> Nil]
    ELSE [results |-> identity,
          lastError |-> resp.Error, returns |-> FALSE, err |-> Nil]

\* The metadata loop recording the (nil) object of a failure too.
metadataLoopBody_recordsFailures(resp, metadata) ==
    [results |-> (resp.Evaluator :> resp.Object) @@ metadata,
     returns |-> FALSE, err |-> Nil]

\* The metadata loop returning at the first success, as the identity loop does.
metadataLoopBody_returnsOnSuccess(resp, metadata) ==
    IF resp.Success
    THEN [results |-> (resp.Evaluator :> resp.Object) @@ metadata,
          returns |-> TRUE, err |-> Nil]
    ELSE [results |-> metadata, returns |-> FALSE, err |-> Nil]

\* Body of the range loop of evaluateMetadataConfigs.
metadataLoopBody(resp, metadata) ==
    IF resp.Success
    THEN [results |-> (resp.Evaluator :> resp.Object) @@ metadata,
          returns |-> FALSE, err |-> Nil]
    ELSE [results |-> metadata, returns |-> FALSE, err |-> Nil]

\* The authorization loop logging a failure without returning it.
authorizationLoopBody_noReturn(resp, authorization) ==
    IF resp.Success
    THEN [results |-> (resp.Evaluator :> resp.Object) @@ authorization,
          returns |-> FALSE, err |-> Nil]
    ELSE [results |-> authorization, returns |-> FALSE, err |-> Nil]

\* Body of the range loop of evaluateAuthorizationConfigs.
authorizationLoopBody(resp, authorization) ==
    IF resp.Success
    THEN [results |-> (resp.Evaluator :> resp.Object) @@ authorization,
          returns |-> FALSE, err |-> Nil]
    ELSE [results |-> authorization, returns |-> TRUE, err |-> resp.Error]

\* A phase function starts: the channel is made and the goroutine that runs
\* the runner is started (ctx, waitGroup.Add(len(authConfigs))).
StartPhase(p) ==
    /\ waitGroup' = [waitGroup EXCEPT ![p] = Len(API[p])]
    /\ runner' = [runner EXCEPT
                    ![p] = IF Len(API[p]) = 0 THEN "waiting" ELSE "spawning"]

\* Evaluate() returns err (kind names the return statement) or nil ("allow").
Return(kind, err) ==
    /\ evalpc' = "returned"
    /\ result' = [kind |-> kind, err |-> err]
    /\ UNCHANGED <<waitGroup, runner>>

\* A phase function returned nil to Evaluate(): the next phase starts, or
\* Evaluate() returns nil.
Proceed(p) ==
    IF PhaseAfter(p) = "returned"
    THEN Return("allow", Nil)
    ELSE /\ evalpc' = PhaseAfter(p)
         /\ StartPhase(PhaseAfter(p))
         /\ UNCHANGED result

\* Evaluate() is called.
Evaluate ==
    /\ ~panicked
    /\ evalpc = "new"
    /\ Proceed("new")
    /\ UNCHANGED <<emitted, request, tokenOut, oidc, findOut>>
    /\ UNCHANGED <<API, parentCancelled, Identity, Metadata, Authorization,
                   lastError, respChannel, closed, ctxDone, spawned, task,
                   calls, lastRead, panicked>>

\* The runner's for loop starts the goroutine of the next evaluator.
Spawn(p) ==
    /\ ~panicked
    /\ runner[p] = "spawning"
    /\ spawned' = [spawned EXCEPT ![p] = @ + 1]
    /\ task' = [task EXCEPT ![p][spawned[p] + 1] = "select"]
    /\ runner' = [runner EXCEPT
                    ![p] = IF spawned[p] + 1 = Len(API[p])
                           THEN "waiting" ELSE "spawning"]
    /\ UNCHANGED <<emitted, request, tokenOut, oidc, findOut>>
    /\ UNCHANGED <<API, parentCancelled, Identity, Metadata, Authorization,
                   evalpc, lastError, result, respChannel, closed, ctxDone,
                   waitGroup, calls, lastRead, panicked>>

\* A runner without the deferred close: it returns and leaves the channel open.
WaitAndClose_noClose(p) ==
    /\ ~panicked
    /\ runner[p] = "waiting"
    /\ WaitReturns(waitGroup[p])
    /\ runner' = [runner EXCEPT ![p] = "exited"]
    /\ UNCHANGED <<emitted, request, tokenOut, oidc, findOut>>
    /\ UNCHANGED <<API, parentCancelled, Identity, Metadata, Authorization,
                   evalpc, lastError, result, respChannel, closed, ctxDone,
                   waitGroup, spawned, task, calls, lastRead, panicked>>

\* waitGroup.Wait() returns, the runner returns, the deferred close runs.
WaitAndClose(p) ==
    /\ ~panicked
    /\ runner[p] = "waiting"
    /\ WaitReturns(waitGroup[p])
    /\ closed' = [closed EXCEPT ![p] = TRUE]
    /\ runner' = [runner EXCEPT ![p] = "exited"]
    /\ UNCHANGED <<emitted, request, tokenOut, oidc, findOut>>
    /\ UNCHANGED <<API, parentCancelled, Identity, Metadata, Authorization,
                   evalpc, lastError, result, respChannel, ctxDone, waitGroup,
                   spawned, task, calls, lastRead, panicked>>

\* evaluateAuthConfig's select: ctx.Done() returns nil without a call,
\* default calls the evaluator.
Select(p, i) ==
    /\ ~panicked
    /\ task[p][i] = "select"
    /\ IF ctxSkips(ctxDone[CtxOf(p)])
       THEN /\ task' = [task EXCEPT
                          ![p][i] = AfterEvaluate(RunnerOf(p), "skipped")]
            /\ UNCHANGED calls
       ELSE /\ task' = [task EXCEPT ![p][i] = "call"]
            /\ calls' = [calls EXCEPT ![p][i] = @ + 1]
    /\ UNCHANGED <<emitted, request, tokenOut, oidc, findOut>>
    /\ UNCHANGED <<API, parentCancelled, Identity, Metadata, Authorization,
                   evalpc, lastError, result, respChannel, closed, ctxDone,
                   waitGroup, runner, spawned, lastRead, panicked>>

\* A successCallback that writes the result map itself, in the worker.
CallReturn_writesMap(p, i) ==
    /\ ~panicked
    /\ task[p][i] = "call"
    /\ ~closed[p]
    /\ Len(respChannel[p]) < ChanCap(API[p])
    /\ respChannel' = [respChannel EXCEPT
          ![p] = Append(@, ResponseOf(p, i, API[p][i]))]
    /\ task' = [task EXCEPT ![p][i] = AfterEvaluate(RunnerOf(p), API[p][i])]
    /\ emitted' = [emitted EXCEPT ![p][i] = @ + 1]
    /\ IF API[p][i] = "ok" /\ p = "metadata"
       THEN Metadata' = (i :> Obj(p, i)) @@ Metadata
       ELSE UNCHANGED Metadata
    /\ UNCHANGED <<API, parentCancelled, Identity, Authorization, evalpc,
                   lastError, result, closed, ctxDone, waitGroup, runner,
                   spawned, calls, lastRead, panicked, request, tokenOut,
                   oidc, findOut>>

\* config.Call(authContext) returns and successCallback / failureCallback puts
\* the response on the channel. A send blocks while the buffer is full and
\* panics on a closed channel.
CallReturn(p, i) ==
    /\ ~panicked
    /\ task[p][i] = "call"
    /\ closed[p] \/ Len(respChannel[p]) < ChanCap(API[p])
    /\ IF closed[p]
       THEN /\ panicked' = TRUE
            /\ UNCHANGED <<respChannel, task, emitted>>
       ELSE /\ respChannel' = [respChannel EXCEPT
                  ![p] = Append(@, ResponseOf(p, i, API[p][i]))]
            /\ task' = [task EXCEPT
                  ![p][i] = AfterEvaluate(RunnerOf(p), API[p][i])]
            /\ emitted' = [emitted EXCEPT ![p][i] = @ + 1]
            /\ UNCHANGED panicked
    /\ UNCHANGED <<request, tokenOut, oidc, findOut>>
    /\ UNCHANGED <<API, parentCancelled, Identity, Metadata, Authorization,
                   evalpc, lastError, result, closed, ctxDone, waitGroup,
                   runner, spawned, calls, lastRead>>

\* cancel()
Cancel(p, i) ==
    /\ ~panicked
    /\ task[p][i] = "cancel"
    /\ ctxDone' = [ctxDone EXCEPT ![CtxOf(p)] = TRUE]
    /\ task' = [task EXCEPT ![p][i] = "done"]
    /\ UNCHANGED <<emitted, request, tokenOut, oidc, findOut>>
    /\ UNCHANGED <<API, parentCancelled, Identity, Metadata, Authorization,
                   evalpc, lastError, result, respChannel, closed, waitGroup,
                   runner, spawned, calls, lastRead, panicked>>

\* The deferred waitGroup.Done(); the goroutine exits.
Done(p, i) ==
    /\ ~panicked
    /\ task[p][i] = "done"
    /\ waitGroup' = [waitGroup EXCEPT ![p] = @ - 1]
    /\ task' = [task EXCEPT ![p][i] = "exited"]
    /\ UNCHANGED <<emitted, request, tokenOut, oidc, findOut>>
    /\ UNCHANGED <<API, parentCancelled, Identity, Metadata, Authorization,
                   evalpc, lastError, result, respChannel, closed, ctxDone,
                   runner, spawned, calls, lastRead, panicked>>

\* evaluateIdentityConfigs receives a response.
RecvIdentity ==
    /\ ~panicked
    /\ evalpc = "identity"
    /\ respChannel["identity"] # <<>>
    /\ LET resp == Head(respChannel["identity"])
           next == identityLoopBody(resp, Identity, lastError)
       IN  /\ respChannel' = [respChannel EXCEPT !["identity"] = Tail(@)]
           /\ lastRead' = resp
           /\ Identity' = next.results
           /\ lastError' = next.lastError
           /\ IF next.returns
              THEN Proceed("identity")
              ELSE UNCHANGED <<evalpc, result, waitGroup, runner>>
    /\ UNCHANGED <<emitted, request, tokenOut, oidc, findOut>>
    /\ UNCHANGED <<API, parentCancelled, Metadata, Authorization, closed,
                   ctxDone, spawned, task, calls, panicked>>

\* Evaluate() recording the identity error without returning it.
EndIdentity_recordsAndContinues ==
    /\ ~panicked
    /\ evalpc = "identity"
    /\ respChannel["identity"] = <<>>
    /\ closed["identity"]
    /\ evalpc' = PhaseAfter("identity")
    /\ StartPhase(PhaseAfter("identity"))
    /\ result' = IF lastError # Nil
                 THEN [kind |-> "AuthenticationFailed", err |-> lastError]
                 ELSE result
    /\ UNCHANGED <<emitted, request, tokenOut, oidc, findOut>>
    /\ UNCHANGED <<API, parentCancelled, Identity, Metadata, Authorization,
                   lastError, respChannel, closed, ctxDone, spawned, task,
                   calls, lastRead, panicked>>

\* The range loop of evaluateIdentityConfigs ends: return lastError.
EndIdentity ==
    /\ ~panicked
    /\ evalpc = "identity"
    /\ respChannel["identity"] = <<>>
    /\ closed["identity"]
    /\ IF lastError # Nil
       THEN Return("AuthenticationFailed", lastError)
       ELSE Proceed("identity")
    /\ UNCHANGED <<emitted, request, tokenOut, oidc, findOut>>
    /\ UNCHANGED <<API, parentCancelled, Identity, Metadata, Authorization,
                   lastError, respChannel, closed, ctxDone, spawned, task,
                   calls, lastRead, panicked>>

\* evaluateMetadataConfigs receives a response.
RecvMetadata ==
    /\ ~panicked
    /\ evalpc = "metadata"
    /\ respChannel["metadata"] # <<>>
    /\ LET resp == Head(respChannel["metadata"])
           next == metadataLoopBody(resp, Metadata)
       IN  /\ respChannel' = [respChannel EXCEPT !["metadata"] = Tail(@)]
           /\ lastRead' = resp
           /\ Metadata' = next.results
           /\ IF next.returns
              THEN Proceed("metadata")
              ELSE UNCHANGED <<evalpc, result, waitGroup, runner>>
    /\ UNCHANGED <<emitted, request, tokenOut, oidc, findOut>>
    /\ UNCHANGED <<API, parentCancelled, Identity, Authorization, lastError,
                   closed, ctxDone, spawned, task, calls, panicked>>

\* The range loop of evaluateMetadataConfigs ends.
EndMetadata ==
    /\ ~panicked
    /\ evalpc = "metadata"
    /\ respChannel["metadata"] = <<>>
    /\ closed["metadata"]
    /\ Proceed("metadata")
    /\ UNCHANGED <<emitted, request, tokenOut, oidc, findOut>>
    /\ UNCHANGED <<API, parentCancelled, Identity, Metadata, Authorization,
                   lastError, respChannel, closed, ctxDone, spawned, task,
                   calls, lastRead, panicked>>

\* An authorization consumer that goes on draining the channel, and recording
\* the successes it finds, after Evaluate() has returned the failure.
RecvAuthorization_drainsAfterReturn ==
    /\ ~panicked
    /\ \/ evalpc = "authorization"
       \/ evalpc = "returned" /\ result.kind = "AuthorizationDenied"
    /\ respChannel["authorization"] # <<>>
    /\ LET resp == Head(respChannel["authorization"])
           next == authorizationLoopBody(resp, Authorization)
       IN  /\ respChannel' = [respChannel EXCEPT !["authorization"] = Tail(@)]
           /\ lastRead' = resp
           /\ Authorization' = next.results
           /\ IF next.returns /\ evalpc # "returned"
              THEN Return("AuthorizationDenied", next.err)
              ELSE UNCHANGED <<evalpc, result, waitGroup, runner>>
    /\ UNCHANGED <<emitted, request, tokenOut, oidc, findOut>>
    /\ UNCHANGED <<API, parentCancelled, Identity, Metadata, lastError, closed,
                   ctxDone, spawned, task, calls, panicked>>

\* evaluateAuthorizationConfigs receives a response.
RecvAuthorization ==
    /\ ~panicked
    /\ evalpc = "authorization"
    /\ respChannel["authorization"] # <<>>
    /\ LET resp == Head(respChannel["authorization"])
           next == authorizationLoopBody(resp, Authorization)
       IN  /\ respChannel' = [respChannel EXCEPT !["authorization"] = Tail(@)]
           /\ lastRead' = resp
           /\ Authorization' = next.results
           /\ IF next.returns
              THEN Return("AuthorizationDenied", next.err)
              ELSE UNCHANGED <<evalpc, result, waitGroup, runner>>
    /\ UNCHANGED <<emitted, request, tokenOut, oidc, findOut>>
    /\ UNCHANGED <<API, parentCancelled, Identity, Metadata, lastError, closed,
                   ctxDone, spawned, task, calls, panicked>>

\* evaluateAuthorizationConfigs denying when no policy was recorded.
EndAuthorization_deniesEmpty ==
    /\ ~panicked
    /\ evalpc = "authorization"
    /\ respChannel["authorization"] = <<>>
    /\ closed["authorization"]
    /\ IF Authorization = <<>>
       THEN Return("AuthorizationDenied", Nil)
       ELSE Proceed("authorization")
    /\ UNCHANGED <<emitted, request, tokenOut, oidc, findOut>>
    /\ UNCHANGED <<API, parentCancelled, Identity, Metadata, Authorization,
                   lastError, respChannel, closed, ctxDone, spawned, task,
                   calls, lastRead, panicked>>

\* The range loop of evaluateAuthorizationConfigs ends: return nil.
EndAuthorization ==
    /\ ~panicked
    /\ evalpc = "authorization"
    /\ respChannel["authorization"] = <<>>
    /\ closed["authorization"]
    /\ Proceed("authorization")
    /\ UNCHANGED <<emitted, request, tokenOut, oidc, findOut>>
    /\ UNCHANGED <<API, parentCancelled, Identity, Metadata, Authorization,
                   lastError, respChannel, closed, ctxDone, spawned, task,
                   calls, lastRead, panicked>>

\* The caller cancels the context NewAuthContext was given, while a phase is
\* in progress. No statement of the pipeline reads *ParentContext.
CancelParent ==
    /\ ~parentCancelled
    /\ evalpc \in Phases
    /\ parentCancelled' = TRUE
    /\ UNCHANGED <<emitted, request, tokenOut, oidc, findOut>>
    /\ UNCHANGED <<API, Identity, Metadata, Authorization, evalpc, lastError,
                   result, respChannel, closed, ctxDone, waitGroup, runner,
                   spawned, task, calls, lastRead, panicked>>

Next ==
    \/ Evaluate
    \/ \E p \in Phases : Spawn(p)
    \/ \E p \in Phases : WaitAndClose(p)
    \/ \E p \in Phases : \E i \in DOMAIN task[p] : Select(p, i)
    \/ \E p \in Phases : \E i \in DOMAIN task[p] : CallReturn(p, i)
    \/ \E p \in Phases : \E i \in DOMAIN task[p] : Cancel(p, i)
    \/ \E p \in Phases : \E i \in DOMAIN task[p] : Done(p, i)
    \/ RecvIdentity
    \/ EndIdentity
    \/ RecvMetadata
    \/ EndMetadata
    \/ RecvAuthorization
    \/ EndAuthorization

\* Runs in which the caller does not cancel its context.
Spec == Init /\ [][Next]_vars

\* Runs in which the caller may cancel its context during a phase.
NextParent ==
    \/ Next
    \/ CancelParent

SpecParent == Init /\ [][NextParent]_vars

\* Runs under a fair scheduler, with evaluator calls that return: a step of
\* some goroutine is taken as long as a goroutine can take one.
SpecFair == InitFair /\ [][Next]_vars /\ WF_vars(Next)

\* The orders in which a range over a map with these keys can visit them.
Orders(keys) ==
    {o \in [1..Cardinality(keys) -> keys] :
        \A a, b \in DOMAIN o : a # b => o[a] # o[b]}

\* The loop of FindIdentityByName over the entries in the order visited:
\* reading OIDC.Name through a nil OIDC faults, the first entry with the name
\* is returned, and the error when the entries are exhausted.
RECURSIVE scanIdentity(_, _, _)
scanIdentity(order, conf, name) ==
    IF order = <<>>
    THEN [name |-> name, kind |-> "notfound", key |-> 0]
    ELSE IF conf[Head(order)] = NilOIDC
    THEN [name |-> name, kind |-> "fault", key |-> Head(order)]
    ELSE IF conf[Head(order)] = name
    THEN [name |-> name, kind |-> "found", key |-> Head(order)]
    ELSE scanIdentity(Tail(order), conf, name)

\* FindIdentityByName(name): what it can return, over the orders of the range.
FindIdentityByName(identity, conf, name) ==
    {scanIdentity(o, conf, name) : o \in Orders(DOMAIN identity)}

\* FindIdentityByName() is called once the identity phase is over (by a
\* metadata or authorization evaluator, or after Evaluate() returned).
CallFindIdentityByName ==
    /\ ~panicked
    /\ evalpc \notin {"new", "identity"}
    /\ findOut = NotSearched
    /\ \E name \in OIDCNames :
           findOut' \in FindIdentityByName(Identity, oidc, name)
    /\ UNCHANGED <<API, parentCancelled, Identity, Metadata, Authorization,
                   evalpc, lastError, result, respChannel, closed, ctxDone,
                   waitGroup, runner, spawned, task, calls, lastRead,
                   panicked, emitted, request, tokenOut, oidc>>

NextFind ==
    \/ Next
    \/ CallFindIdentityByName

\* The pipeline with a call of FindIdentityByName().
SpecFind == InitFind /\ [][NextFind]_vars

\* Index of the first occurrence of sep in s, 0 when there is none
\* (strings.Index).
IndexOf(s, sep) ==
    LET hits == {k \in 1..(Len(s) + 1) :
                    /\ k + Len(sep) - 1 <= Len(s)
                    /\ SubSeq(s, k, k + Len(sep) - 1) = sep}
    IN  IF hits = {} THEN 0 ELSE CHOOSE k \in hits : \A m \in hits : k <= m

\* strings.Split(s, sep) for a non-empty sep: the substrings between the
\* occurrences of sep, found from the left.
RECURSIVE Split(_, _)
Split(s, sep) ==
    LET m == IndexOf(s, sep)
    IN  IF m = 0
        THEN <<s>>
        ELSE <<SubSeq(s, 1, m - 1)>> \o Split(SubSeq(s, m + Len(sep), Len(s)), sep)

\* The test without the length of the split: only a missing header is an error.
tokenMalformed_headerOnly(authHeaderOK, splitToken) == ~authHeaderOK

\* The test of AuthorizationToken that returns the error.
tokenMalformed(authHeaderOK, splitToken) ==
    ~authHeaderOK \/ Len(splitToken) # 2

\* AuthorizationToken(): the token and the error, or a fault when the index
\* is out of the slice's range.
AuthorizationToken(req) ==
    LET splitToken == IF req.present
                      THEN Split(req.value, BearerPrefix)
                      ELSE <<>>
    IN  IF tokenMalformed(req.present, splitToken)
        THEN [token |-> <<>>, err |-> "malformed", fault |-> FALSE]
        ELSE IF Len(splitToken) < 2
        THEN [token |-> <<>>, err |-> "none", fault |-> TRUE]
        ELSE [token |-> splitToken[2], err |-> "nil", fault |-> FALSE]

\* AuthorizationToken() is called on the AuthContext.
CallAuthorizationToken ==
    /\ tokenOut = NotCalled
    /\ tokenOut' = AuthorizationToken(request)
    /\ UNCHANGED <<API, parentCancelled, Identity, Metadata, Authorization,
                   evalpc, lastError, result, respChannel, closed, ctxDone,
                   waitGroup, runner, spawned, task, calls, lastRead,
                   panicked, emitted, request, oidc, findOut>>

NextToken == CallAuthorizationToken

\* The calls of AuthorizationToken(), for every request.
SpecToken == InitToken /\ [][NextToken]_vars

(***************************************************************************)
(* Properties of the pipeline.                                             *)
(***************************************************************************)

Returned == evalpc = "returned"

\* evaluateIdentityConfigs returned nil to Evaluate().
IdentitySucceeded ==
    \/ evalpc \in {"metadata", "authorization"}
    \/ Returned /\ result.kind \in {"allow", "AuthorizationDenied"}

\* evaluateIdentityConfigs returned.
IdentityEnded ==
    \/ IdentitySucceeded
    \/ Returned /\ result.kind = "AuthenticationFailed"

\* evaluateMetadataConfigs returned.
MetadataEnded ==
    \/ evalpc = "authorization"
    \/ Returned /\ result.kind \in {"allow", "AuthorizationDenied"}

Succeeding(p) == {i \in DOMAIN API[p] : API[p][i] = "ok"}
Failing(p) == {i \in DOMAIN API[p] : API[p][i] = "fail"}
Invoked(p) == {i \in DOMAIN API[p] : calls[p][i] > 0}
Exited(p) == {i \in DOMAIN API[p] : task[p][i] = "exited"}

\* C1: with at least one identity evaluator that succeeds, the identity phase
\* never fails, and once it has ended the Identity map holds exactly one
\* entry: a succeeding evaluator with that evaluator's object. At no time does
\* the map hold more than one entry, whatever the siblings emit.
C1_IdentityShortCircuit ==
    Succeeding("identity") # {} =>
        /\ IdentityEnded => IdentitySucceeded
        /\ IdentityEnded =>
              \E k \in Succeeding("identity") :
                  Identity = (k :> Obj("identity", k))
        /\ Cardinality(DOMAIN Identity) <= 1

\* C1 witness: two identity evaluators both succeeded and both emitted; one is
\* in the map, the sibling's response stays in the channel.
C1_Witness ==
    /\ Returned
    /\ result.kind = "allow"
    /\ API["identity"] = <<"ok", "ok">>
    /\ Invoked("identity") = {1, 2}
    /\ Len(respChannel["identity"]) = 1
    /\ Cardinality(DOMAIN Identity) = 1

\* The error the specification names for an API config without identity
\* evaluators.
NoIdentitySource == [phase |-> "identity", index |-> 0]

\* C2: with an empty list of identity evaluators Evaluate() returns the
\* authentication failure NoIdentitySource (and so never allow).
C2_EmptyIdentityFails ==
    (API["identity"] = <<>> /\ Returned) =>
        result = [kind |-> "AuthenticationFailed", err |-> NoIdentitySource]

\* C3: when Evaluate() has returned allow, the Identity map holds exactly one
\* entry and the Authorization map one entry per authorization evaluator.
C3_AllowMaps ==
    (Returned /\ result.kind = "allow") =>
        /\ Cardinality(DOMAIN Identity) = 1
        /\ DOMAIN Authorization = DOMAIN API["authorization"]

\* C4: after a successful identity phase, Evaluate() returns allow with one
\* Authorization entry per evaluator when every authorization evaluator
\* succeeds, and returns the error of a failing authorization evaluator, never
\* allow, when at least one fails.
C4_AuthorizationAllOrNothing ==
    (Returned /\ IdentitySucceeded) =>
        /\ Failing("authorization") = {} =>
              /\ result.kind = "allow"
              /\ DOMAIN Authorization = DOMAIN API["authorization"]
              /\ \A i \in DOMAIN Authorization :
                     Authorization[i] = Obj("authorization", i)
        /\ Failing("authorization") # {} =>
              /\ result.kind = "AuthorizationDenied"
              /\ \E j \in Failing("authorization") :
                     /\ calls["authorization"][j] = 1
                     /\ result.err = Err("authorization", j)

\* C4 witness: two authorization evaluators, the success was recorded before
\* the failure was received, and Evaluate() returned the failure.
C4_Witness ==
    /\ Returned
    /\ result.kind = "AuthorizationDenied"
    /\ Len(API["authorization"]) = 2
    /\ Cardinality(DOMAIN Authorization) = 1

\* C5: no metadata evaluator is ever cancelled; when the metadata phase has
\* ended every metadata evaluator was invoked (once) and the Metadata map holds
\* exactly the succeeding evaluators with their objects; and an error returned
\* by Evaluate() is never a metadata evaluator's.
C5_MetadataNeverFails ==
    /\ ~ctxDone["metadata"]
    /\ MetadataEnded =>
          /\ \A i \in DOMAIN API["metadata"] : calls["metadata"][i] = 1
          /\ DOMAIN Metadata = Succeeding("metadata")
          /\ \A i \in DOMAIN Metadata : Metadata[i] = Obj("metadata", i)
    /\ evalpc = "metadata" => result = NoResult
    /\ Returned => result.err.phase # "metadata"

\* C5 witness: a succeeding and a failing metadata evaluator, the phase ended.
C5_Witness ==
    /\ evalpc = "authorization"
    /\ Succeeding("metadata") # {}
    /\ Failing("metadata") # {}
    /\ Invoked("metadata") = DOMAIN API["metadata"]
    /\ DOMAIN Metadata = Succeeding("metadata")

\* C6: with a non-empty identity list whose evaluators all fail, no identity
\* evaluator is invoked twice, the Identity map stays empty, the identity
\* phase never succeeds, and when Evaluate() has returned every identity
\* evaluator was invoked once and the result is the authentication failure
\* with the error of the last response the consumer received.
C6_AllIdentityFail ==
    (API["identity"] # <<>> /\ Succeeding("identity") = {}) =>
        /\ Identity = <<>>
        /\ ~IdentitySucceeded
        /\ \A i \in DOMAIN API["identity"] : calls["identity"][i] <= 1
        /\ Returned =>
              /\ \A i \in DOMAIN API["identity"] : calls["identity"][i] = 1
              /\ ~lastRead.Success
              /\ result = [kind |-> "AuthenticationFailed",
                           err |-> lastRead.Error]

\* C6 witness: two failing identity evaluators, the second one's failure was
\* received first, and Evaluate() returned the first one's error.
C6_Witness ==
    /\ Returned
    /\ API["identity"] = <<"fail", "fail">>
    /\ result = [kind |-> "AuthenticationFailed", err |-> Err("identity", 1)]

\* The error the specification names for a cancelled parent context.
Aborted == [phase |-> "parent", index |-> 0]

\* C7: when the parent context was cancelled while a phase was in progress,
\* Evaluate() returns the Aborted failure.
C7_ParentCancelAborts ==
    (parentCancelled /\ Returned) =>
        /\ result.kind \in {"AuthenticationFailed", "AuthorizationDenied"}
        /\ result.err = Aborted

\* C8: when a metadata evaluator has been invoked, every identity worker has
\* exited and the identity channel is closed.
C8_IdentityBeforeMetadata ==
    Invoked("metadata") # {} =>
        /\ closed["identity"]
        /\ Exited("identity") = DOMAIN API["identity"]

\* C9: when an authorization evaluator has been invoked, every metadata worker
\* has exited and the metadata channel is closed.
C9_MetadataBeforeAuthorization ==
    Invoked("authorization") # {} =>
        /\ closed["metadata"]
        /\ Exited("metadata") = DOMAIN API["metadata"]

\* C9 witness: an authorization evaluator is being called after two metadata
\* workers ran.
C9_Witness ==
    /\ \E j \in DOMAIN API["authorization"] : task["authorization"][j] = "call"
    /\ Len(API["metadata"]) = 2
    /\ Invoked("metadata") = {1, 2}

\* C10: the Identity map is written only while neither the Metadata nor the
\* Authorization map has been written and no metadata or authorization
\* evaluator has been invoked; the Metadata map only while the Authorization
\* map has not been written and no authorization evaluator has been invoked.
\* So the maps of the earlier phases are final when an evaluator is called.
C10_WriteOrdering ==
    [][/\ Identity' # Identity =>
             /\ Metadata = <<>> /\ Authorization = <<>>
             /\ Invoked("metadata") = {} /\ Invoked("authorization") = {}
       /\ Metadata' # Metadata =>
             /\ Authorization = <<>>
             /\ Invoked("authorization") = {}
       /\ Authorization' # Authorization =>
             /\ Identity' = Identity
             /\ Metadata' = Metadata]_vars

\* C10 witness: all three maps have been written.
C10_Witness ==
    /\ Identity # <<>>
    /\ Metadata # <<>>
    /\ Authorization # <<>>
    /\ Len(API["identity"]) = 2

HasBearerPrefix(h) ==
    /\ Len(h) >= Len(BearerPrefix)
    /\ SubSeq(h, 1, Len(BearerPrefix)) = BearerPrefix

\* C11: AuthorizationToken() returns t without error exactly for the header
\* values "Bearer " followed by t, and the malformed-credential error for
\* every other value and without the header.
C11_TokenIffExactBearer ==
    tokenOut # NotCalled =>
        IF request.present /\ HasBearerPrefix(request.value)
        THEN tokenOut = [token |-> SubSeq(request.value,
                                          Len(BearerPrefix) + 1,
                                          Len(request.value)),
                         err |-> "nil", fault |-> FALSE]
        ELSE tokenOut.err = "malformed"

\* C12: AuthorizationToken() returns the malformed-credential error for the
\* header "Bearer " and never returns an empty token without error.
C12_EmptyTokenMalformed ==
    tokenOut # NotCalled =>
        /\ request.value = BearerPrefix => tokenOut.err = "malformed"
        /\ ~(tokenOut.err = "nil" /\ tokenOut.token = <<>>)

\* C13: after a successful identity phase with no authorization evaluators
\* Evaluate() never returns a failure, the Authorization map stays empty, and
\* what Evaluate() returns is allow.
C13_NoAuthorizationAllows ==
    (IdentitySucceeded /\ API["authorization"] = <<>>) =>
        /\ Authorization = <<>>
        /\ result.kind \in {"none", "allow"}
        /\ Returned => result = [kind |-> "allow", err |-> Nil]

\* C13 witness: allow without authorization evaluators, after an identity
\* evaluator succeeded.
C13_Witness ==
    /\ Returned
    /\ result.kind = "allow"
    /\ API["authorization"] = <<>>
    /\ Identity # <<>>
    /\ closed["authorization"]

\* The worker goroutines of a phase that were started and have not exited.
Live(p) == {i \in DOMAIN API[p] : task[p][i] \notin {"unspawned", "exited"}}

Max2(a, b) == IF a >= b THEN a ELSE b

\* C14: the worker goroutines of the request alive at the same time are at
\* most as many as the longest of the three evaluator lists.
C14_ConcurrencyBound ==
    Cardinality(Live("identity")) + Cardinality(Live("metadata"))
        + Cardinality(Live("authorization"))
      <= Max2(Len(API["identity"]),
              Max2(Len(API["metadata"]), Len(API["authorization"])))

\* C15: in every runner an evaluator is called at most once, a worker emits
\* one response once its call has returned and none without a call, every
\* buffered response is the success with the object or the failure with the
\* error of its evaluator, a channel is closed only when every worker of the
\* phase has exited, and no worker ever sends on a closed channel.
C15_RunnerOutput ==
    /\ ~panicked
    /\ \A p \in Phases :
          /\ closed[p] => Exited(p) = DOMAIN API[p]
          /\ \A i \in DOMAIN API[p] :
                /\ calls[p][i] <= 1
                /\ emitted[p][i] <= calls[p][i]
                /\ (calls[p][i] = 1 /\ task[p][i] # "call") => emitted[p][i] = 1
          /\ \A k \in 1..Len(respChannel[p]) :
                LET resp == respChannel[p][k]
                    ok == API[p][resp.Evaluator] = "ok"
                IN  /\ resp.Success = ok
                    /\ resp.Object = IF ok THEN Obj(p, resp.Evaluator) ELSE Nil
                    /\ resp.Error = IF ok THEN Nil ELSE Err(p, resp.Evaluator)

\* C15 witness: a channel is closed after one worker emitted and another one
\* was skipped.
C15_Witness ==
    \E p \in Phases :
        /\ closed[p]
        /\ \E i \in DOMAIN API[p] : calls[p][i] = 0 /\ emitted[p][i] = 0
        /\ \E j \in DOMAIN API[p] : emitted[p][j] = 1

\* C16: the identity runner's ctx is cancelled for the first time by a worker
\* whose evaluator succeeded and whose success response was sent; a worker
\* whose evaluator was called and failed never gets to cancel() (a worker
\* that gets there without a success was skipped, the ctx being cancelled
\* already); and once the ctx is cancelled no further identity evaluator is
\* called.
C16_AnyOfCancellation ==
    [][/\ (~ctxDone["identity"] /\ ctxDone'["identity"]) =>
              \E i \in Succeeding("identity") :
                  /\ task["identity"][i] = "cancel"
                  /\ task'["identity"][i] = "done"
                  /\ emitted["identity"][i] = 1
       /\ \A i \in Failing("identity") :
              task'["identity"][i] = "cancel" =>
                  /\ calls'["identity"][i] = 0
                  /\ ctxDone["identity"]
       /\ ctxDone["identity"] => calls'["identity"] = calls["identity"]]_vars

\* C16 witness: an identity worker was skipped after the ctx was cancelled.
C16_Witness ==
    /\ ctxDone["identity"]
    /\ \E i \in DOMAIN API["identity"] :
           calls["identity"][i] = 0 /\ task["identity"][i] = "exited"

\* C17: the authorization runner's ctx is cancelled only by a worker whose
\* evaluator failed and whose failure response was sent; a worker whose
\* evaluator succeeded or was skipped never gets to cancel(); once the ctx is
\* cancelled no further authorization evaluator is called; and only called
\* evaluators are in the Authorization map.
C17_AllOfCancellation ==
    [][/\ ctxDone'["authorization"] # ctxDone["authorization"] =>
              \E i \in Failing("authorization") :
                  /\ task["authorization"][i] = "cancel"
                  /\ task'["authorization"][i] = "done"
                  /\ emitted["authorization"][i] = 1
       /\ \A i \in DOMAIN API["authorization"] :
              task'["authorization"][i] = "cancel" =>
                  /\ API["authorization"][i] = "fail"
                  /\ emitted'["authorization"][i] = 1
       /\ ctxDone["authorization"] =>
              calls'["authorization"] = calls["authorization"]
       /\ \A i \in DOMAIN Authorization' : calls'["authorization"][i] = 1]_vars

\* C17 witness: an authorization worker was skipped after a failure cancelled
\* the ctx, and Evaluate() returned the failure.
C17_Witness ==
    /\ ctxDone["authorization"]
    /\ Returned
    /\ result.kind = "AuthorizationDenied"
    /\ \E i \in DOMAIN API["authorization"] :
           calls["authorization"][i] = 0 /\ task["authorization"][i] = "exited"

\* The workers that took the ctx.Done() case of the select.
Skipped(p) ==
    {i \in DOMAIN API[p] :
        calls[p][i] = 0 /\ task[p][i] \in {"cancel", "done", "exited"}}

\* C18: no metadata evaluator is ever skipped and the metadata ctx is never
\* cancelled; an authorization evaluator is skipped, and the authorization ctx
\* cancelled, only after an authorization failure was sent; an identity
\* evaluator is skipped only after an identity success was sent; and the
\* parent context is not cancelled by the pipeline.
C18_CancellationScoped ==
    /\ Skipped("metadata") = {}
    /\ ~ctxDone["metadata"]
    /\ (Skipped("authorization") # {} \/ ctxDone["authorization"]) =>
          \E j \in Failing("authorization") : emitted["authorization"][j] = 1
    /\ (Skipped("identity") # {} \/ ctxDone["identity"]) =>
          \E j \in Succeeding("identity") : emitted["identity"][j] = 1
    /\ ~parentCancelled

\* C18 witness: the identity ctx was cancelled and an identity worker skipped,
\* and afterwards every metadata evaluator and an authorization evaluator
\* were called.
C18_Witness ==
    /\ ctxDone["identity"]
    /\ Skipped("identity") # {}
    /\ API["metadata"] # <<>>
    /\ Invoked("metadata") = DOMAIN API["metadata"]
    /\ Invoked("authorization") # {}

\* The result map of a phase.
ResultMap(p) ==
    CASE p = "identity" -> Identity
      [] p = "metadata" -> Metadata
      [] p = "authorization" -> Authorization

\* C19: a step that changes a result map changes only the map of the phase
\* Evaluate() is in, is the consumer's receive of the first buffered response
\* (it adds that response's evaluator and object), and is no worker's step.
C19_SingleWriter ==
    [][LET changed == {p \in Phases : ResultMap(p)' # ResultMap(p)}
       IN  changed # {} =>
              /\ changed = {evalpc}
              /\ respChannel[evalpc] # <<>>
              /\ respChannel'[evalpc] = Tail(respChannel[evalpc])
              /\ lastRead' = Head(respChannel[evalpc])
              /\ \E p \in Phases :
                     /\ p = evalpc
                     /\ ResultMap(p)' =
                            (lastRead'.Evaluator :> lastRead'.Object)
                                @@ ResultMap(p)
              /\ task' = task
              /\ calls' = calls
              /\ emitted' = emitted
              /\ ctxDone' = ctxDone]_vars

\* C19 witness: the Metadata map was written while a metadata worker is still
\* inside its call.
C19_Witness ==
    /\ Metadata # <<>>
    /\ \E i \in DOMAIN API["metadata"] : task["metadata"][i] = "call"

\* C20: once the identity phase has failed Evaluate() has returned, no
\* metadata or authorization runner is started, no metadata or authorization
\* evaluator is called and the Metadata and Authorization maps are empty;
\* during the authorization phase the Identity and Metadata maps do not
\* change, and a failure the authorization consumer receives is what
\* Evaluate() returns.
C20_FailureStopsPipeline ==
    [][/\ result'.kind = "AuthenticationFailed" =>
              /\ Returned'
              /\ runner'["metadata"] = "idle"
              /\ runner'["authorization"] = "idle"
              /\ Invoked("metadata")' = {}
              /\ Invoked("authorization")' = {}
              /\ Metadata' = <<>>
              /\ Authorization' = <<>>
       /\ evalpc = "authorization" =>
              /\ Identity' = Identity
              /\ Metadata' = Metadata
       /\ (/\ evalpc = "authorization"
           /\ Len(respChannel'["authorization"])
                  < Len(respChannel["authorization"])
           /\ ~Head(respChannel["authorization"]).Success) =>
              /\ Returned'
              /\ result' = [kind |-> "AuthorizationDenied",
                            err |-> Head(respChannel["authorization"]).Error]]_vars

\* C20 witness: the identity phase failed for an API config that has metadata
\* and authorization evaluators.
C20_Witness ==
    /\ Returned
    /\ result.kind = "AuthenticationFailed"
    /\ API["metadata"] # <<>>
    /\ API["authorization"] # <<>>
    /\ Exited("identity") = DOMAIN API["identity"]

\* C21: once Evaluate() has returned, allow or a failure, no step changes the
\* Identity, the Metadata or the Authorization map or what Evaluate()
\* returned, whatever the workers still running do.
C21_MapsFrozenAfterReturn ==
    [][Returned =>
          /\ Returned'
          /\ result' = result
          /\ Identity' = Identity
          /\ Metadata' = Metadata
          /\ Authorization' = Authorization]_vars

\* C21 witness: Evaluate() returned an authorization failure, a success of
\* another authorization worker stays unread in the channel, and a worker of
\* the short-circuited identity phase is still in its call.
C21_Witness ==
    /\ Returned
    /\ result.kind = "AuthorizationDenied"
    /\ Authorization = <<>>
    /\ \E k \in 1..Len(respChannel["authorization"]) :
           respChannel["authorization"][k].Success
    /\ \E i \in DOMAIN API["identity"] : task["identity"][i] = "call"

RECURSIVE SeqSum(_)
SeqSum(s) == IF s = <<>> THEN 0 ELSE Head(s) + SeqSum(Tail(s))

\* C22: in every phase the channel has room for as many responses as the
\* phase has evaluators, the responses ever sent on it are at most that many,
\* so a worker whose call returned can send at once (the buffer is not full
\* and the channel not closed); a runner whose workers have all exited can
\* close the channel; and in every state in which no goroutine can take a
\* step, also after a consumer stopped reading early, every worker of every
\* phase that was started has exited and its channel is closed.
C22_ChannelCapacity ==
    /\ \A p \in Phases :
          /\ ChanCap(API[p]) = Len(API[p])
          /\ SeqSum(emitted[p]) <= ChanCap(API[p])
          /\ Len(respChannel[p]) <= SeqSum(emitted[p])
          /\ \A i \in DOMAIN API[p] :
                task[p][i] = "call" =>
                    /\ ~closed[p]
                    /\ Len(respChannel[p]) < ChanCap(API[p])
                    /\ ENABLED CallReturn(p, i)
          /\ (runner[p] = "waiting" /\ Live(p) = {}) => ENABLED WaitAndClose(p)
    /\ ~(ENABLED Next) =>
          \A p \in Phases :
              runner[p] # "idle" =>
                  /\ closed[p]
                  /\ Exited(p) = DOMAIN API[p]

\* C22 witness: the identity consumer stopped at the first success, the other
\* worker's response stays unread in the buffer, both workers have exited and
\* the channel is closed.
C22_Witness ==
    /\ IdentitySucceeded
    /\ Len(API["identity"]) = 2
    /\ Len(respChannel["identity"]) = 1
    /\ Exited("identity") = {1, 2}
    /\ closed["identity"]

\* C23: under fair scheduling, with evaluator calls that return, Evaluate()
\* eventually returns, for every API config.
C23_EvaluateTerminates == <>Returned

\* C23 witness: Evaluate() returned allow for an API config with identity and
\* authorization evaluators and an empty list of metadata evaluators, whose
\* consumer had to wait for the runner to close the channel.
C23_Witness ==
    /\ Returned
    /\ result.kind = "allow"
    /\ API["identity"] # <<>>
    /\ API["metadata"] = <<>>
    /\ API["authorization"] # <<>>
    /\ closed["metadata"]

\* C24: FindIdentityByName(name) returns an entry whose evaluator's OIDC
\* configuration carries the name when the Identity map has one, and the
\* not-found error, never a fault, when no entry carries the name, whatever
\* kinds of identity evaluators the map's entries belong to.
C24_FindIdentityByName ==
    findOut # NotSearched =>
        IF \E k \in DOMAIN Identity : oidc[k] = findOut.name
        THEN findOut.kind = "found" /\ oidc[findOut.key] = findOut.name
        ELSE findOut.kind = "notfound"

\* C25: AuthorizationToken() never faults: for every request, without the
\* header or with any header value, it returns the malformed-credential error
\* or a token, and a token only when the split of the header has exactly two
\* parts, the token being the second one.
C25_TokenNeverFaults ==
    tokenOut # NotCalled =>
        /\ ~tokenOut.fault
        /\ tokenOut.err \in {"nil", "malformed"}
        /\ tokenOut.err = "nil" =>
              /\ request.present
              /\ Len(Split(request.value, BearerPrefix)) = 2
              /\ tokenOut.token = Split(request.value, BearerPrefix)[2]
        /\ tokenOut.err = "malformed" =>
              \/ ~request.present
              \/ Len(Split(request.value, BearerPrefix)) # 2

\* C25 witness: the call for a request without the header, whose split slice
\* is nil, returned the error.
C25_Witness ==
    /\ tokenOut # NotCalled
    /\ ~request.present
    /\ tokenOut.err = "malformed"

====
